---- MODULE Spec2Model ----
(***************************************************************************)
(* Sailing-boat simulation: the four programs of the repository.           *)
(*                                                                         *)
(*   "thrust"  src/unnamed/part_001   engine thrust, torque, sphere,       *)
(*                                    impulse collisions                   *)
(*   "windA"   src/main.js 1-275      wind model, |sin| sail, [0, pi/2]    *)
(*   "windB"   src/main.js 277-561    the same, boat loaded at y = -10     *)
(*   "windC"   src/unnamed/part_000   wind model, |cos| sail, [0, pi],     *)
(*                                    fixed time step                      *)
(*                                                                         *)
(* JavaScript numbers are modelled as fixed-point numbers: the integer n   *)
(* stands for n / SCALE, and every product, quotient, square root and      *)
(* sine is rounded to the nearest multiple of 1 / SCALE.  Masses are whole *)
(* kilograms (plain integers).  A THREE.Vector3 is a triple <<x, y, z>>.   *)
(* A field that has not been assigned yet (JavaScript undefined / null)    *)
(* is the empty tuple.                                                     *)
(***************************************************************************)
EXTENDS Integers, Sequences, FiniteSets, TLC

VARIABLES
    variant,        \* which of the four programs runs
    pc,             \* position inside animate(): "idle", "sphere", "collide"
    deltaTime,      \* the deltaTime of the frame in progress / last frame
    frames,         \* number of animate() frames started
    signals,        \* number of times the loader has called its onLoad callback
    inputs,         \* number of budgeted input events handled (GUI changes, keys)
    calls,          \* number of direct method calls (function-level specifications)
    exception,      \* uncaught error raised by the last handler, or "none"
    boat,           \* the Boat instance (its fields)
    sphere,         \* the Sphere instance (thrust program), else Undefined
    windDirection,  \* global windDirection (wind programs), else Undefined
    sailAngle       \* global sailAngle (wind programs), else 0

vars == <<variant, pc, deltaTime, frames, signals, inputs, calls, exception,
          boat, sphere, windDirection, sailAngle>>

----------------------------------------------------------------------------
(* Bounds of the model *)

MaxFrames == 5
MaxWindFrames == 1
MaxSignals == 2
MaxInputs == 1
MaxCalls == 2

----------------------------------------------------------------------------
(* Fixed-point arithmetic *)

SCALE == 10^3

Undefined == <<>>

Abs(x) == IF x < 0 THEN -x ELSE x

Max(a, b) == IF a >= b THEN a ELSE b

Min(a, b) == IF a <= b THEN a ELSE b

Fix(n) == n * SCALE

\* a / b for integers, b > 0, rounded to nearest (ties away from zero)
RoundDiv(a, b) ==
    IF a >= 0 THEN (2 * a + b) \div (2 * b)
              ELSE -((2 * (-a) + b) \div (2 * b))

\* product of two non-negative fixed-point numbers, rounded to nearest; the
\* operands are split so that no intermediate result exceeds 32 bits
MulAbs(a, b) ==
    (a \div SCALE) * (b \div SCALE) * SCALE
    + (a \div SCALE) * (b % SCALE) + (a % SCALE) * (b \div SCALE)
    + (2 * (a % SCALE) * (b % SCALE) + SCALE) \div (2 * SCALE)

\* product of two fixed-point numbers
Mul(a, b) == (IF (a < 0) = (b < 0) THEN 1 ELSE -1) * MulAbs(Abs(a), Abs(b))

\* quotient of two fixed-point numbers
Div(a, b) ==
    IF b > 0 THEN RoundDiv(a * SCALE, b) ELSE -RoundDiv(a * SCALE, -b)

\* x * p / q for a fixed-point x and integers p, q > 0
MulRatio(x, p, q) == x * (p \div q) + RoundDiv(x * (p % q), q)

\* floor of the square root of a natural number (Newton iteration)
RECURSIVE IsqrtIter(_, _)
IsqrtIter(n, x) ==
    IF (x + n \div x) \div 2 >= x THEN x ELSE IsqrtIter(n, (x + n \div x) \div 2)

Isqrt(n) == IF n < 2 THEN n ELSE IsqrtIter(n, n)

SqrtRound(n, r) == IF n - r * r > r THEN r + 1 ELSE r

\* Math.sqrt of a natural number, rounded to nearest
Sqrt(n) == SqrtRound(n, Isqrt(n))

\* Math.PI
PI == RoundDiv(31416 * SCALE, 10000)

\* the Taylor polynomial of sin up to x^9 in Horner form, carried with one
\* more decimal digit than SCALE so that the result rounds as Math.sin does;
\* x2 = x * x in units of 1 / (10 * SCALE)
SinPoly(x, x2) ==
    RoundDiv(x * (10 * SCALE - RoundDiv(x2 *
                 (10 * SCALE - RoundDiv(x2 *
                 (10 * SCALE - RoundDiv(x2 *
                 (10 * SCALE - RoundDiv(x2, 72)), 420 * SCALE)), 200 * SCALE)),
                  60 * SCALE)), 10 * SCALE)

SinSmall(x) == SinPoly(x, RoundDiv(x * x, SCALE \div 10))

\* an angle in [-pi, pi] folded into [-pi/2, pi/2] without changing its sine
FoldAngle(r) ==
    IF r > PI \div 2 THEN PI - r
    ELSE IF r < -(PI \div 2) THEN -PI - r
    ELSE r

\* Math.sin
Sin(x) == SinSmall(FoldAngle(((x + PI) % (2 * PI)) - PI))

\* Math.cos
Cos(x) == Sin(x + PI \div 2)

----------------------------------------------------------------------------
(* THREE.Vector3 *)

Zero3 == <<0, 0, 0>>

VAdd(u, v) == <<u[1] + v[1], u[2] + v[2], u[3] + v[3]>>

VSub(u, v) == <<u[1] - v[1], u[2] - v[2], u[3] - v[3]>>

\* multiplyScalar by a fixed-point scalar
VScale(v, s) == <<Mul(v[1], s), Mul(v[2], s), Mul(v[3], s)>>

\* divideScalar by a whole number (a mass)
VDivInt(v, n) == <<RoundDiv(v[1], n), RoundDiv(v[2], n), RoundDiv(v[3], n)>>

VDot(u, v) == Mul(u[1], v[1]) + Mul(u[2], v[2]) + Mul(u[3], v[3])

\* the length of v computed on components divided by k
VLengthBy(v, k) ==
    k * Sqrt((v[1] \div k) * (v[1] \div k) + (v[2] \div k) * (v[2] \div k)
             + (v[3] \div k) * (v[3] \div k))

\* length(): the components are scaled down first when their squares would
\* not fit in 32 bits
VLength(v) ==
    VLengthBy(v, Max(Abs(v[1]), Max(Abs(v[2]), Abs(v[3]))) \div 20000 + 1)

VDivLength(v, len) ==
    IF len = 0 THEN v ELSE <<Div(v[1], len), Div(v[2], len), Div(v[3], len)>>

\* normalize(): divideScalar(length() || 1)
VNormalize(v) == VDivLength(v, VLength(v))

----------------------------------------------------------------------------
(* The thrust program: src/unnamed/part_001 *)

\* const g = 9.8
g == (98 * SCALE) \div 10

\* this.inertia = (1 / 12) * this.mass * (Math.pow(2, 2) + Math.pow(2, 2))
Inertia(mass) == RoundDiv(mass * 8 * SCALE, 12)

\* if (this.boat): has the loader callback assigned the scene object
IsLoaded(b) == b.boat # Undefined

Position(b) == b.boat[1].position

RotationY(b) == b.boat[1].rotationY

\* new Boat(), before the loader has answered
ThrustBoat ==
    [mass |-> 3000, volume |-> (15 * SCALE) \div 10, waterDensity |-> 1000,
     inertia |-> Inertia(3000), angularVelocity |-> 0, torque |-> 0,
     thrust |-> 0, rotationSpeed |-> 0, radius |-> Fix(5), collided |-> FALSE,
     boat |-> Undefined, velocity |-> Undefined, acceleration |-> Undefined]

\* new Sphere(new THREE.Vector3(0, 0, 100), 20, 500)
NewSphere ==
    [radius |-> Fix(20), mass |-> 500, velocity |-> Zero3, acceleration |-> Zero3,
     object |-> [position |-> <<0, 0, Fix(100)>>]]

\* the loader callback of the Boat constructor; rotY is the yaw of the scene
\* object the loader hands over (the callback does not assign it)
ThrustOnLoad(b, rotY) ==
    [b EXCEPT !.boat = <<[position |-> <<Fix(-10), Fix(-4), Fix(-10)>>,
                          rotationY |-> rotY]>>,
              !.velocity = Zero3,
              !.acceleration = Zero3]

\* mutant of SubmergedVolume: the submerged fraction is also capped at 1
SubmergedVolumeCapped(b) ==
    Max(0, Mul(b.volume, Min(SCALE, SCALE - RoundDiv(Position(b)[2], 2))))

\* Math.max(0, this.volume * (1 - this.boat.position.y / 2))
SubmergedVolume(b) ==
    Max(0, Mul(b.volume, SCALE - RoundDiv(Position(b)[2], 2)))

\* (0, 0, thrust).applyQuaternion(this.boat.quaternion), a rotation about y
ThrustForce(b) ==
    <<Mul(b.thrust, Sin(RotationY(b))), 0, Mul(b.thrust, Cos(RotationY(b)))>>

\* velocity * (-dragCoefficient * velocity.length())
DragForce(b) == VScale(b.velocity, -Mul(SCALE \div 10, VLength(b.velocity)))

\* the sum of gravity, buoyancy, drag and thrust
TotalForce(b) ==
    VAdd(VAdd(VAdd(<<0, -(b.mass * g), 0>>,
                   <<0, Mul(b.waterDensity * SubmergedVolume(b), g), 0>>),
              DragForce(b)),
         ThrustForce(b))

\* this.acceleration.copy(totalForce).divideScalar(this.mass)
Acceleration(b) == VDivInt(TotalForce(b), b.mass)

\* mutant of LinearDamping: the idle factor is above 1
LinearDampingAbove == (102 * SCALE) \div 100

\* const linearDamping = 0.98
LinearDamping == (98 * SCALE) \div 100

\* velocity += acceleration * dt, then the idle damping when thrust is 0
StepVelocity(b, acc, dt) ==
    IF b.thrust = 0
    THEN VScale(VAdd(b.velocity, VScale(acc, dt)), LinearDamping)
    ELSE VAdd(b.velocity, VScale(acc, dt))

\* this.boat.position.add(velocity * dt)
StepPosition(b, v, dt) == VAdd(Position(b), VScale(v, dt))

\* velocity after lines 75-81 of Boat.update
IntegratedVelocity(b, dt) == StepVelocity(b, Acceleration(b), dt)

\* position after line 83 of Boat.update, before the floor test
IntegratedPosition(b, dt) == StepPosition(b, IntegratedVelocity(b, dt), dt)

\* the floor below which position.y is clamped
FloorY == Fix(-4)

\* if (this.boat.position.y < -4)
BelowFloor(y) == y < FloorY

\* this.boat.position.y = -4
ClampPosition(p) == IF BelowFloor(p[2]) THEN <<p[1], FloorY, p[3]>> ELSE p

\* mutant of ClampVelocity: the clamp forgets to zero the vertical velocity
ClampVelocityKept(p, v) == v

\* this.velocity.y = 0
ClampVelocity(p, v) == IF BelowFloor(p[2]) THEN <<v[1], 0, v[3]>> ELSE v

\* mutant of Torque: the steering moment of full thrust, whatever the thrust
TorqueWithoutThrust(b) == Mul(Mul(Fix(500), SCALE), Sin(b.rotationSpeed))

\* this.thrust * armLength * Math.sin(this.rotationSpeed), armLength = 1
Torque(b) == Mul(Mul(b.thrust, SCALE), Sin(b.rotationSpeed))

\* const angularDampingFactor = 0.95
AngularDamping == (95 * SCALE) \div 100

\* angularVelocity += torque / inertia * dt, then the angular damping
StepAngularVelocity(b, torque, dt) ==
    Mul(b.angularVelocity + Mul(Div(torque, b.inertia), dt), AngularDamping)

\* the assignments of Boat.update, given the values it computed
Integrated(b, dt, acc, v, p, torque, w) ==
    [b EXCEPT !.acceleration = acc,
              !.velocity = ClampVelocity(p, v),
              !.torque = torque,
              !.angularVelocity = w,
              !.boat = <<[position |-> ClampPosition(p),
                          rotationY |-> RotationY(b) + Mul(w, dt)]>>]

IntegrateAngular(b, dt, acc, v, torque) ==
    Integrated(b, dt, acc, v, StepPosition(b, v, dt), torque,
               StepAngularVelocity(b, torque, dt))

IntegrateLinear(b, dt, acc) ==
    IntegrateAngular(b, dt, acc, StepVelocity(b, acc, dt), Torque(b))

\* the body of Boat.update once the guard has passed
Integrate(b, dt) == IntegrateLinear(b, dt, Acceleration(b))

\* Boat.update(deltaTime): if (!this.boat) return
Update(b, dt) == IF IsLoaded(b) THEN Integrate(b, dt) ELSE b

\* Sphere.update(deltaTime)
SphereMoved(s, v, dt) ==
    [s EXCEPT !.velocity = v,
              !.object = [position |-> VAdd(s.object.position, VScale(v, dt))],
              !.acceleration = Zero3]

SphereUpdate(s, dt) == SphereMoved(s, VAdd(s.velocity, VScale(s.acceleration, dt)), dt)

\* the unit vector from the other object to the boat
CollisionNormal(b, s) == VNormalize(VSub(Position(b), s.object.position))

\* relativeVelocity.dot(normal)
VelocityAlong(b, s, normal) == VDot(VSub(b.velocity, s.velocity), normal)

VelocityAlongNormal(b, s) == VelocityAlong(b, s, CollisionNormal(b, s))

\* mutant of Separating: the early return is missing
SeparatingIgnored(van) == FALSE

\* if (velocityAlongNormal > 0) return
Separating(van) == van > 0

\* const restitution = 0.7
Restitution == (7 * SCALE) \div 10

\* -(1 + restitution) * velocityAlongNormal / (1 / this.mass + 1 / other.mass);
\* the sum of reciprocals is kept as the exact fraction (ma + mb) / (ma * mb)
ImpulseScalar(van, ma, mb) ==
    MulRatio(Mul(-(SCALE + Restitution), van), ma * mb, ma + mb)

\* what impulse.divideScalar(otherObject.mass) yields on line 61: divideScalar
\* works in place, and impulse is the vector that line 60 has already divided
\* by this.mass
OtherImpulse(impulse, ma, mb) == VDivInt(VDivInt(impulse, ma), mb)

\* lines 60-61: the two velocity changes
ApplyImpulse(b, s, impulse) ==
    <<[b EXCEPT !.velocity = VAdd(b.velocity, VDivInt(impulse, b.mass))],
      [s EXCEPT !.velocity = VSub(s.velocity, OtherImpulse(impulse, b.mass, s.mass))]>>

Resolve(b, s, normal, van) ==
    IF Separating(van)
    THEN <<b, s>>
    ELSE ApplyImpulse(b, s, VScale(normal, ImpulseScalar(van, b.mass, s.mass)))

ResolveAlong(b, s, normal) == Resolve(b, s, normal, VelocityAlong(b, s, normal))

\* Boat.handleCollision(otherObject): the pair <<boat, other>> after the call
HandleCollision(b, s) == ResolveAlong(b, s, CollisionNormal(b, s))

\* this.radius + 50 + otherObject.radius
CollisionDistance(b, s) == b.radius + Fix(50) + s.radius

\* distance < collisionDistance
Overlapping(b, s) ==
    VLength(VSub(Position(b), s.object.position)) < CollisionDistance(b, s)

\* mutant of CheckCollision: without the else branch that clears the flag
CheckCollisionSticky(b, s) ==
    IF Overlapping(b, s)
    THEN HandleCollision([b EXCEPT !.collided = TRUE], s)
    ELSE <<b, s>>

\* Boat.checkCollision(otherObject) on a loaded boat
CheckCollision(b, s) ==
    IF Overlapping(b, s)
    THEN HandleCollision([b EXCEPT !.collided = TRUE], s)
    ELSE <<[b EXCEPT !.collided = FALSE], s>>

\* Boat.setMass(newMass)
SetMass(b, newMass) == [b EXCEPT !.mass = newMass, !.inertia = Inertia(newMass)]

\* Boat.setVolume(newVolume): the assignment that precedes this.boat.scale.set
SetVolume(b, newVolume) == [b EXCEPT !.volume = newVolume]

----------------------------------------------------------------------------
(* The wind programs: src/main.js (two copies) and src/unnamed/part_000 *)

WindVariants == {"windA", "windB", "windC"}

\* const GRAVITY_ACCELERATION = 9.81
GRAVITY_ACCELERATION == (981 * SCALE) \div 100

\* Math.PI / 18, the step of the arrow keys
SailStep == RoundDiv(PI, 18)

\* the upper limit of ArrowUp: Math.PI / 2 in main.js, Math.PI in part_000
SailMax(var) == IF var = "windC" THEN PI ELSE RoundDiv(PI, 2)

\* new Forces(mass, volumeDisplaced, fluidDensity)
NewForces(mass, volumeDisplaced, fluidDensity) ==
    [mass |-> mass, volumeDisplaced |-> volumeDisplaced, fluidDensity |-> fluidDensity,
     gravity |-> <<0, -(GRAVITY_ACCELERATION * mass), 0>>,
     buoyancy |-> <<0, Mul(fluidDensity * volumeDisplaced, GRAVITY_ACCELERATION), 0>>,
     dragCoefficient |-> SCALE \div 10, windForce |-> Zero3]

\* new Boat(), before the loader has answered
WindBoat ==
    [mass |-> 500, volumeDisplaced |-> Fix(2), fluidDensity |-> 1000,
     forces |-> NewForces(500, Fix(2), 1000),
     velocity |-> Zero3, acceleration |-> Zero3, rotationSpeed |-> 0,
     boat |-> Undefined]

computeAirResistance(f, velocity) == VScale(velocity, -f.dragCoefficient)

computeWaterResistance(f, velocity) == VScale(velocity, -(f.dragCoefficient * 2))

\* mutant of computeWindForce: main.js without the clamp of the angle
computeWindForceUnclamped(var, wd, sa) ==
    IF var = "windC" THEN VScale(wd, Abs(Cos(sa))) ELSE VScale(wd, Abs(Sin(sa)))

\* main.js clamps the angle to [0, pi/2] and uses |sin|; part_000 uses |cos|
computeWindForce(var, wd, sa) ==
    IF var = "windC"
    THEN VScale(wd, Abs(Cos(sa)))
    ELSE VScale(wd, Abs(Sin(Max(0, Min(sa, RoundDiv(PI, 2))))))

computeNetForce(var, f, velocity, wd, sa) ==
    VAdd(VAdd(VAdd(VAdd(f.gravity, f.buoyancy), computeWindForce(var, wd, sa)),
              computeAirResistance(f, velocity)),
         computeWaterResistance(f, velocity))

computeAcceleration(f, netForce) == VDivInt(netForce, f.mass)

\* mutant of isAtRest: the test of the velocity alone
isAtRestStill(var, f, velocity, wd, sa) == VLength(velocity) = 0

isAtRest(var, f, velocity, wd, sa) ==
    /\ VLength(computeNetForce(var, f, velocity, wd, sa)) = 0
    /\ VLength(velocity) = 0

\* the loader callback of the Boat constructor
WindOnLoad(var, b, wd, sa) ==
    [b EXCEPT !.boat = <<[position |-> <<0, IF var = "windB" THEN Fix(-10) ELSE 0, 0>>,
                          rotationY |-> PI]>>,
              !.velocity = IF isAtRest(var, b.forces, b.velocity, wd, sa)
                           THEN Zero3 ELSE b.velocity]

\* Object3D.getWorldDirection: the local +z axis of a body rotated about y
WorldDirection(b) == <<Sin(RotationY(b)), 0, Cos(RotationY(b))>>

\* if (!this.forces.isAtRest(this.velocity)) velocity += acceleration * dt
WindStepVelocity(var, b, acc, dt, wd, sa) ==
    IF isAtRest(var, b.forces, b.velocity, wd, sa)
    THEN b.velocity
    ELSE VAdd(b.velocity, VScale(acc, dt))

\* the assignments of Boat.update, given the values it computed
WindIntegrated(b, dt, acc, v) ==
    [b EXCEPT !.acceleration = acc,
              !.velocity = v,
              !.boat = <<[position |-> VAdd(Position(b),
                                            VScale(WorldDirection(b), Mul(VLength(v), dt))),
                          rotationY |-> RotationY(b) + Mul(b.rotationSpeed, dt)]>>]

WindIntegrateFrom(var, b, dt, wd, sa, acc) ==
    WindIntegrated(b, dt, acc, WindStepVelocity(var, b, acc, dt, wd, sa))

\* mutant of WindIntegrate: the acceleration stored by the previous update is
\* added to the one computed from the forces
WindIntegrateCarried(var, b, dt, wd, sa) ==
    WindIntegrateFrom(var, b, dt, wd, sa,
        VAdd(b.acceleration,
             computeAcceleration(b.forces,
                                 computeNetForce(var, b.forces, b.velocity, wd, sa))))

\* the body of Boat.update inside if (this.boat)
WindIntegrate(var, b, dt, wd, sa) ==
    WindIntegrateFrom(var, b, dt, wd, sa,
        computeAcceleration(b.forces, computeNetForce(var, b.forces, b.velocity, wd, sa)))

\* mutant of WindUpdate: the velocity integration sits outside if (this.boat)
WindUpdateHoisted(var, b, dt, wd, sa) ==
    IF IsLoaded(b)
    THEN WindIntegrate(var, b, dt, wd, sa)
    ELSE [b EXCEPT !.velocity = VAdd(b.velocity, VScale(b.forces.gravity, dt))]

\* Boat.update(deltaTime): if (this.boat) { ... }
WindUpdate(var, b, dt, wd, sa) ==
    IF IsLoaded(b) THEN WindIntegrate(var, b, dt, wd, sa) ELSE b

\* Vector3.applyAxisAngle((0, 1, 0), angle)
RotateAboutY(v, angle) ==
    <<Mul(v[1], Cos(angle)) + Mul(v[3], Sin(angle)), v[2],
      Mul(v[3], Cos(angle)) - Mul(v[1], Sin(angle))>>

\* case 'ArrowUp'
SailUp(var, sa) == Min(sa + SailStep, SailMax(var))

\* mutant of SailDown: the Math.max clamp is missing
SailDownUnclamped(sa) == sa - SailStep

\* case 'ArrowDown'
SailDown(sa) == Max(sa - SailStep, 0)

----------------------------------------------------------------------------
(* The programs as a state machine *)

Variants == {"thrust"} \cup WindVariants

\* deltaTime values: the first frame (0), a 60 Hz frame, a frame after the
\* page was in the background for 10 s
DeltaTimes == {0, 16, Fix(10)}

\* part_000: const deltaTime = 0.016
FixedDeltaTime == 16

\* clock.getDelta() of src/main.js: a 60 Hz frame, a frame after 10 s in the
\* background
ClockDeltas == {FixedDeltaTime, Fix(10)}

\* values of the dat.GUI sliders
ThrustValues == {0, Fix(500)}
RotationSpeedValues == {0, SCALE \div 2}
MassValues == {500, 3000}
VolumeValues == {(15 * SCALE) \div 10, Fix(5)}

Init ==
    /\ variant \in Variants
    /\ pc = "idle"
    /\ deltaTime = 0
    /\ frames = 0
    /\ signals = 0
    /\ inputs = 0
    /\ calls = 0
    /\ exception = "none"
    /\ boat = IF variant = "thrust" THEN ThrustBoat ELSE WindBoat
    /\ sphere = IF variant = "thrust" THEN NewSphere ELSE Undefined
    /\ windDirection = IF variant = "thrust" THEN Undefined ELSE <<SCALE, 0, 0>>
    /\ sailAngle = IF variant = "thrust" THEN 0 ELSE RoundDiv(PI, 2)

\* the loader calls the onLoad callback (a second call is a duplicate signal)
OnLoad ==
    /\ pc = "idle"
    /\ signals < MaxSignals
    /\ signals' = signals + 1
    /\ exception' = "none"
    /\ IF variant = "thrust"
       THEN \E rotY \in {0} \cup (IF IsLoaded(boat) THEN {RotationY(boat)} ELSE {}) :
                boat' = ThrustOnLoad(boat, rotY)
       ELSE boat' = WindOnLoad(variant, boat, windDirection, sailAngle)
    /\ UNCHANGED <<calls, variant, pc, deltaTime, frames, inputs, sphere, windDirection, sailAngle>>

\* mutant of Animate: the collision impulse is applied before the frame's
\* boat.update
AnimateImpulseFirst ==
    /\ variant = "thrust"
    /\ pc = "idle"
    /\ frames < MaxFrames
    /\ \E dt \in DeltaTimes :
          /\ deltaTime' = dt
          /\ boat' = IF IsLoaded(boat)
                     THEN Update(CheckCollision(boat, sphere)[1], dt)
                     ELSE boat
    /\ frames' = frames + 1
    /\ exception' = "none"
    /\ pc' = "sphere"
    /\ UNCHANGED <<calls, variant, signals, inputs, sphere, windDirection, sailAngle>>

\* animate() of the thrust program up to and including boat.update(deltaTime)
Animate ==
    /\ variant = "thrust"
    /\ pc = "idle"
    /\ frames < MaxFrames
    /\ \E dt \in DeltaTimes :
          /\ deltaTime' = dt
          /\ boat' = Update(boat, dt)
    /\ frames' = frames + 1
    /\ exception' = "none"
    /\ pc' = "sphere"
    /\ UNCHANGED <<calls, variant, signals, inputs, sphere, windDirection, sailAngle>>

\* sphere.update(deltaTime)
AnimateSphere ==
    /\ pc = "sphere"
    /\ sphere' = SphereUpdate(sphere, deltaTime)
    /\ pc' = "collide"
    /\ UNCHANGED <<calls, variant, deltaTime, frames, signals, inputs, exception, boat,
                   windDirection, sailAngle>>

\* boat.checkCollision(sphere) and the rest of the frame; reading
\* this.boat.position while this.boat is undefined throws a TypeError, which
\* ends the frame
AnimateCollide ==
    /\ pc = "collide"
    /\ pc' = "idle"
    /\ IF IsLoaded(boat)
       THEN /\ \E r \in {CheckCollision(boat, sphere)} :
                   boat' = r[1] /\ sphere' = r[2]
            /\ UNCHANGED exception
       ELSE /\ exception' = "TypeError"
            /\ UNCHANGED <<boat, sphere>>
    /\ UNCHANGED <<calls, variant, deltaTime, frames, signals, inputs, windDirection, sailAngle>>

\* the onChange handlers of the dat.GUI sliders
GuiThrust ==
    /\ variant = "thrust" /\ pc = "idle" /\ inputs < MaxInputs
    /\ \E value \in ThrustValues : boat' = [boat EXCEPT !.thrust = value]
    /\ inputs' = inputs + 1
    /\ exception' = "none"
    /\ UNCHANGED <<calls, variant, pc, deltaTime, frames, signals, sphere, windDirection, sailAngle>>

GuiRotationSpeed ==
    /\ variant = "thrust" /\ pc = "idle" /\ inputs < MaxInputs
    /\ \E value \in RotationSpeedValues : boat' = [boat EXCEPT !.rotationSpeed = value]
    /\ inputs' = inputs + 1
    /\ exception' = "none"
    /\ UNCHANGED <<calls, variant, pc, deltaTime, frames, signals, sphere, windDirection, sailAngle>>

GuiMass ==
    /\ variant = "thrust" /\ pc = "idle" /\ inputs < MaxInputs
    /\ \E value \in MassValues : boat' = SetMass(boat, value)
    /\ inputs' = inputs + 1
    /\ exception' = "none"
    /\ UNCHANGED <<calls, variant, pc, deltaTime, frames, signals, sphere, windDirection, sailAngle>>

\* setVolume assigns this.volume, then this.boat.scale.set throws a TypeError
\* while this.boat is undefined
GuiVolume ==
    /\ variant = "thrust" /\ pc = "idle" /\ inputs < MaxInputs
    /\ \E value \in VolumeValues : boat' = SetVolume(boat, value)
    /\ inputs' = inputs + 1
    /\ exception' = IF IsLoaded(boat) THEN "none" ELSE "TypeError"
    /\ UNCHANGED <<calls, variant, pc, deltaTime, frames, signals, sphere, windDirection, sailAngle>>

\* animate() of a wind program: if (boat) boat.update(deltaTime)
WindAnimate ==
    /\ variant \in WindVariants
    /\ pc = "idle"
    /\ frames < MaxWindFrames
    /\ \E dt \in (IF variant = "windC" THEN {FixedDeltaTime} ELSE ClockDeltas) :
          /\ deltaTime' = dt
          /\ boat' = WindUpdate(variant, boat, dt, windDirection, sailAngle)
    /\ frames' = frames + 1
    /\ exception' = "none"
    /\ UNCHANGED <<calls, variant, pc, signals, inputs, sphere, windDirection, sailAngle>>

\* handleKeyDown: 'w', 's'
KeyVelocity ==
    /\ variant \in WindVariants /\ inputs < MaxInputs
    /\ \E speed \in {Fix(100), Fix(-100)} : boat' = [boat EXCEPT !.velocity = <<0, 0, speed>>]
    /\ inputs' = inputs + 1
    /\ UNCHANGED <<calls, variant, pc, deltaTime, frames, signals, exception, sphere,
                   windDirection, sailAngle>>

\* handleKeyDown: 'a', 'd'
KeyRotation ==
    /\ variant \in WindVariants /\ inputs < MaxInputs
    /\ \E speed \in {Fix(1), Fix(-1)} : boat' = [boat EXCEPT !.rotationSpeed = speed]
    /\ inputs' = inputs + 1
    /\ UNCHANGED <<calls, variant, pc, deltaTime, frames, signals, exception, sphere,
                   windDirection, sailAngle>>

\* handleKeyDown: 'ArrowLeft', 'ArrowRight'
KeyWind ==
    /\ variant \in WindVariants /\ inputs < MaxInputs
    /\ \E angle \in {SailStep, -SailStep} : windDirection' = RotateAboutY(windDirection, angle)
    /\ inputs' = inputs + 1
    /\ UNCHANGED <<calls, variant, pc, deltaTime, frames, signals, exception, boat, sphere,
                   sailAngle>>

\* handleKeyDown: 'ArrowUp'
KeySailUp ==
    /\ variant \in WindVariants
    /\ sailAngle' = SailUp(variant, sailAngle)
    /\ UNCHANGED <<calls, variant, pc, deltaTime, frames, signals, inputs, exception, boat,
                   sphere, windDirection>>

\* handleKeyDown: 'ArrowDown'
KeySailDown ==
    /\ variant \in WindVariants
    /\ sailAngle' = SailDown(sailAngle)
    /\ UNCHANGED <<calls, variant, pc, deltaTime, frames, signals, inputs, exception, boat,
                   sphere, windDirection>>

\* handleKeyUp: 'w', 's' stop the boat; 'a', 'd' stop the rotation
KeyUpVelocity ==
    /\ variant \in WindVariants /\ inputs < MaxInputs
    /\ boat' = [boat EXCEPT !.velocity = Zero3]
    /\ inputs' = inputs + 1
    /\ UNCHANGED <<calls, variant, pc, deltaTime, frames, signals, exception, sphere,
                   windDirection, sailAngle>>

KeyUpRotation ==
    /\ variant \in WindVariants /\ inputs < MaxInputs
    /\ boat' = [boat EXCEPT !.rotationSpeed = 0]
    /\ inputs' = inputs + 1
    /\ UNCHANGED <<calls, variant, pc, deltaTime, frames, signals, exception, sphere,
                   windDirection, sailAngle>>

Next ==
    \/ OnLoad
    \/ Animate
    \/ AnimateSphere
    \/ AnimateCollide
    \/ GuiThrust
    \/ GuiRotationSpeed
    \/ GuiMass
    \/ GuiVolume
    \/ WindAnimate
    \/ KeyVelocity
    \/ KeyRotation
    \/ KeyWind
    \/ KeySailUp
    \/ KeySailDown
    \/ KeyUpVelocity
    \/ KeyUpRotation

Spec == Init /\ [][Next]_vars

----------------------------------------------------------------------------
(* Boat.handleCollision as a function of the pair it is given: the boat and *)
(* the sphere are drawn overlapping, with the velocities and masses below,  *)
(* and the method is called up to MaxCalls times.                           *)

\* boat position minus sphere position
CollideOffsets ==
    {<<0, 0, Fix(10)>>, <<0, 0, Fix(-10)>>, <<Fix(3), Fix(4), 0>>,
     <<Fix(-10), Fix(-4), Fix(-60)>>, Zero3}

CollideBoatVelocities ==
    {Zero3, <<0, 0, Fix(-5)>>, <<0, 0, Fix(5)>>, <<Fix(1), Fix(-2), Fix(3)>>}

CollideSphereVelocities == {Zero3, <<0, Fix(1), Fix(2)>>, <<0, 0, Fix(-8)>>}

InitCollide ==
    /\ variant = "thrust"
    /\ pc = "idle"
    /\ deltaTime = 0
    /\ frames = 0
    /\ signals = 1
    /\ inputs = 0
    /\ calls = 0
    /\ exception = "none"
    /\ \E m \in MassValues, off \in CollideOffsets, v \in CollideBoatVelocities :
          boat = [SetMass(ThrustOnLoad(ThrustBoat, 0), m) EXCEPT
                     !.boat = <<[position |-> VAdd(NewSphere.object.position, off),
                                 rotationY |-> 0]>>,
                     !.velocity = v]
    /\ \E v \in CollideSphereVelocities : sphere = [NewSphere EXCEPT !.velocity = v]
    /\ windDirection = Undefined
    /\ sailAngle = 0

\* boat.handleCollision(sphere)
CallHandleCollision ==
    /\ calls < MaxCalls
    /\ calls' = calls + 1
    /\ \E r \in {HandleCollision(boat, sphere)} : boat' = r[1] /\ sphere' = r[2]
    /\ UNCHANGED <<variant, pc, deltaTime, frames, signals, inputs, exception,
                   windDirection, sailAngle>>

SpecCollide == InitCollide /\ [][CallHandleCollision]_vars

----------------------------------------------------------------------------
(* Boat.update as a function of the state it is called in: a loaded default *)
(* boat is drawn at the heights, velocities and thrust below, and update is *)
(* called up to MaxCalls times.                                             *)

UpdateHeights == {Fix(-4), Fix(-2), 0, Fix(3)}

UpdateVelocities == {Zero3, <<0, Fix(-3), 0>>, <<0, Fix(2), Fix(1)>>, <<Fix(3), 0, Fix(-4)>>}

InitUpdate ==
    /\ variant = "thrust"
    /\ pc = "idle"
    /\ deltaTime = 0
    /\ frames = 0
    /\ signals = 1
    /\ inputs = 0
    /\ calls = 0
    /\ exception = "none"
    /\ \E y \in UpdateHeights, v \in UpdateVelocities, th \in ThrustValues :
          boat = [ThrustOnLoad(ThrustBoat, 0) EXCEPT
                     !.boat = <<[position |-> <<Fix(-10), y, Fix(-10)>>, rotationY |-> 0]>>,
                     !.velocity = v,
                     !.thrust = th]
    /\ sphere = NewSphere
    /\ windDirection = Undefined
    /\ sailAngle = 0

\* boat.update(deltaTime)
CallUpdate ==
    /\ calls < MaxCalls
    /\ calls' = calls + 1
    /\ \E dt \in DeltaTimes :
          /\ deltaTime' = dt
          /\ boat' = Update(boat, dt)
    /\ UNCHANGED <<variant, pc, frames, signals, inputs, exception, sphere,
                   windDirection, sailAngle>>

SpecUpdate == InitUpdate /\ [][CallUpdate]_vars

----------------------------------------------------------------------------
(* Boat.setMass as a function of its argument: the loaded boat of InitUpdate *)
(* is handed masses inside and outside the range of the GUI slider, up to    *)
(* MaxCalls times.                                                           *)

\* arguments of setMass: a negative mass, zero, and the two slider values
SetMassArguments == {-500, 0} \cup MassValues

\* boat.setMass(newMass): two assignments, no validation, nothing thrown
CallSetMass ==
    /\ calls < MaxCalls
    /\ calls' = calls + 1
    /\ \E newMass \in SetMassArguments : boat' = SetMass(boat, newMass)
    /\ UNCHANGED <<variant, pc, deltaTime, frames, signals, inputs, exception, sphere,
                   windDirection, sailAngle>>

SpecSetMass == InitUpdate /\ [][CallSetMass]_vars

----------------------------------------------------------------------------
(* Boat.update of the wind programs as a function of the state it is called *)
(* in: a loaded default boat is drawn with the velocities below, the wind    *)
(* direction and the sail angle are drawn inside and outside the range the   *)
(* key handlers keep them in, and update is called up to MaxCalls times.     *)

\* the initial wind, a wind turned by the arrow keys, a wind that is not a
\* unit vector
WindDirections == {<<SCALE, 0, 0>>, <<0, 0, -SCALE>>, <<Fix(30), 0, Fix(40)>>}

SailAngles ==
    {-SailStep, 0, SailStep, RoundDiv(PI, 4), RoundDiv(PI, 2),
     RoundDiv(PI, 2) + SailStep, PI}

\* at rest, after 'w' (setVelocity(100)), after 's' (setVelocity(-100))
WindVelocities == {Zero3, <<0, 0, Fix(100)>>, <<0, 0, Fix(-100)>>}

\* no turn key, after 'a' (setRotationSpeed(1)), after 'd' (setRotationSpeed(-1))
WindRotationSpeeds == {0, Fix(1), Fix(-1)}

InitWind ==
    /\ variant \in WindVariants
    /\ pc = "idle"
    /\ deltaTime = 0
    /\ frames = 0
    /\ signals = 1
    /\ inputs = 0
    /\ calls = 0
    /\ exception = "none"
    /\ windDirection \in WindDirections
    /\ sailAngle \in SailAngles
    /\ \E v \in WindVelocities, speed \in WindRotationSpeeds :
          boat = [WindOnLoad(variant, WindBoat, windDirection, sailAngle) EXCEPT
                     !.velocity = v, !.rotationSpeed = speed]
    /\ sphere = Undefined

\* boat.update(deltaTime)
CallWindUpdate ==
    /\ calls < MaxCalls
    /\ calls' = calls + 1
    /\ \E dt \in (IF variant = "windC" THEN {FixedDeltaTime} ELSE ClockDeltas) :
          /\ deltaTime' = dt
          /\ boat' = WindUpdate(variant, boat, dt, windDirection, sailAngle)
    /\ UNCHANGED <<variant, pc, frames, signals, inputs, exception, sphere,
                   windDirection, sailAngle>>

SpecWind == InitWind /\ [][CallWindUpdate]_vars

----------------------------------------------------------------------------
(* Steering in the thrust program: the loaded default boat with a thrust and *)
(* a rotationSpeed of the GUI sliders; update is called up to MaxCalls       *)
(* times, and the sliders are moved up to MaxInputs times in between.        *)

InitSteer ==
    /\ variant = "thrust"
    /\ pc = "idle"
    /\ deltaTime = 0
    /\ frames = 0
    /\ signals = 1
    /\ inputs = 0
    /\ calls = 0
    /\ exception = "none"
    /\ \E th \in ThrustValues, speed \in RotationSpeedValues :
          boat = [ThrustOnLoad(ThrustBoat, 0) EXCEPT
                     !.thrust = th, !.rotationSpeed = speed]
    /\ sphere = NewSphere
    /\ windDirection = Undefined
    /\ sailAngle = 0

\* the onChange handler of the thrust slider
CallSetThrust ==
    /\ inputs < MaxInputs
    /\ inputs' = inputs + 1
    /\ \E value \in ThrustValues : boat' = [boat EXCEPT !.thrust = value]
    /\ UNCHANGED <<variant, pc, deltaTime, frames, signals, calls, exception, sphere,
                   windDirection, sailAngle>>

\* the onChange handler of the rotationSpeed slider
CallSetRotationSpeed ==
    /\ inputs < MaxInputs
    /\ inputs' = inputs + 1
    /\ \E value \in RotationSpeedValues : boat' = [boat EXCEPT !.rotationSpeed = value]
    /\ UNCHANGED <<variant, pc, deltaTime, frames, signals, calls, exception, sphere,
                   windDirection, sailAngle>>

SpecSteer == InitSteer /\ [][CallUpdate \/ CallSetThrust \/ CallSetRotationSpeed]_vars

----------------------------------------------------------------------------
(* Properties *)

\* the step that runs Boat.update inside animate(), in any of the programs
UpdateStep == pc = "idle" /\ frames' = frames + 1

\* the step that runs boat.checkCollision(sphere) inside animate()
CheckCollisionStep == variant = "thrust" /\ pc = "collide"

\* C1: in the thrust program, boat.checkCollision(sphere) on a boat whose
\* scene object is not loaded yet raises no error and changes neither the
\* boat (velocity, collided flag) nor the sphere.
C1_UnreadyCollideIsNoOp ==
    [][(CheckCollisionStep /\ ~IsLoaded(boat))
         => (exception' = "none" /\ boat' = boat /\ sphere' = sphere)]_vars

\* C2: Boat.update on a boat that is not loaded leaves the whole Boat
\* instance (velocity, acceleration, position, rotation, angularVelocity,
\* torque) unchanged, for every deltaTime, in the wind and thrust programs.
C2_UnreadyUpdateUnchanged ==
    [][(UpdateStep /\ ~IsLoaded(boat)) => boat' = boat]_vars

\* C2 witness: frames have run, with a positive deltaTime, on a boat that is
\* still not loaded.
C2_Witness == frames >= 2 /\ deltaTime > 0 /\ ~IsLoaded(boat) /\ pc = "idle"

\* the step in which the loader calls onLoad again on a loaded boat
DuplicateSignal == IsLoaded(boat) /\ signals' = signals + 1

\* C3: a duplicate asset-ready signal on a boat that has been integrated
\* leaves position, velocity, acceleration and orientation as they were.
C3_DuplicateSignalKeepsState ==
    [][(DuplicateSignal /\ frames >= 1)
         => /\ Position(boat)' = Position(boat)
            /\ RotationY(boat)' = RotationY(boat)
            /\ boat'.velocity = boat.velocity
            /\ boat'.acceleration = boat.acceleration]_vars

\* total linear momentum of the pair, a vector in kg * (1 / SCALE) m/s
Momentum(b, s) ==
    <<b.mass * b.velocity[1] + s.mass * s.velocity[1],
      b.mass * b.velocity[2] + s.mass * s.velocity[2],
      b.mass * b.velocity[3] + s.mass * s.velocity[3]>>

\* total momentum projected on the collision normal; handleCollision moves
\* neither body, so the normal is the same before and after the call
NormalMomentum(b, s, normal) == VDot(Momentum(b, s), normal)

\* the rounding of the two velocity changes to 1 / SCALE can move the total
\* momentum by at most this much
MomentumTolerance(b, s) == b.mass + s.mass

\* the rounding of the normal and of the velocities can move the relative
\* velocity along the normal by at most this much (0.02 m/s)
VelocityTolerance == 2 * (SCALE \div 100)

\* the step that calls boat.handleCollision(sphere)
HandleCollisionStep == calls' = calls + 1

\* C4: for an approaching pair (velocityAlongNormal <= 0) handleCollision
\* conserves the total momentum along the collision normal.
C4_MomentumConserved ==
    [][(HandleCollisionStep /\ VelocityAlongNormal(boat, sphere) <= 0)
         => Abs(NormalMomentum(boat', sphere', CollisionNormal(boat, sphere))
                - NormalMomentum(boat, sphere, CollisionNormal(boat, sphere)))
              <= MomentumTolerance(boat, sphere)]_vars

\* the golden scenario: masses 500 and 500, velocities (0,0,-5) and (0,0,0),
\* normal +z
GoldenScenario ==
    /\ boat.mass = 500 /\ sphere.mass = 500
    /\ boat.velocity = <<0, 0, Fix(-5)>> /\ sphere.velocity = Zero3
    /\ CollisionNormal(boat, sphere) = <<0, 0, SCALE>>

\* C5: after handleCollision on an approaching pair the relative velocity
\* along the normal is -restitution times what it was; in the golden scenario
\* the impulse scalar is 2125 and the velocities become (0,0,-0.75) and
\* (0,0,-4.25).
C5_RestitutionLaw ==
    [][(HandleCollisionStep /\ VelocityAlongNormal(boat, sphere) <= 0)
         => /\ Abs(VelocityAlong(boat', sphere', CollisionNormal(boat, sphere))
                   + Mul(Restitution, VelocityAlongNormal(boat, sphere)))
                 <= VelocityTolerance
            /\ GoldenScenario
                 => /\ ImpulseScalar(VelocityAlongNormal(boat, sphere), 500, 500) = Fix(2125)
                    /\ boat'.velocity = <<0, 0, -((75 * SCALE) \div 100)>>
                    /\ sphere'.velocity = <<0, 0, -((425 * SCALE) \div 100)>>]_vars

\* C6: when the relative velocity along the normal is strictly positive,
\* handleCollision changes neither velocity, on every call.
C6_SeparatingPairUnchanged ==
    [][(HandleCollisionStep /\ VelocityAlongNormal(boat, sphere) > 0)
         => (boat'.velocity = boat.velocity /\ sphere'.velocity = sphere.velocity)]_vars

\* C6 witness: handleCollision has been called twice on a separating pair
\* with a moving boat.
C6_Witness ==
    /\ calls >= 2
    /\ VelocityAlongNormal(boat, sphere) > 0
    /\ boat.velocity # Zero3

\* the step of animate() that runs Boat.update of the thrust program on a
\* loaded boat
ActiveUpdateStep == variant = "thrust" /\ UpdateStep /\ IsLoaded(boat)

\* C7: at the end of every Boat.update of a loaded boat position.y >= -4, and
\* when the integrated position fell below -4 in that update, position.y is
\* exactly -4 and velocity.y exactly 0.
C7_FloorClamp ==
    [][ActiveUpdateStep
         => /\ Position(boat)'[2] >= FloorY
            /\ BelowFloor(IntegratedPosition(boat, deltaTime')[2])
                 => (Position(boat)'[2] = FloorY /\ boat'.velocity[2] = 0)]_vars

\* C7 witness: after a frame in which the collision impulse pushed the boat
\* sideways and down, an update with a positive deltaTime has ended on the
\* floor with the vertical velocity zeroed.
C7_Witness ==
    /\ variant = "thrust" /\ pc = "sphere" /\ IsLoaded(boat)
    /\ boat.collided
    /\ deltaTime > 0
    /\ Position(boat)[2] = FloorY
    /\ boat.velocity[2] = 0
    /\ boat.velocity[1] # 0

\* C8 as stated: in every wind program sailAngle stays within [0, pi/2].
C8_SailAngleWithinHalfPi ==
    variant \in WindVariants => (0 <= sailAngle /\ sailAngle <= RoundDiv(PI, 2))

\* C8 as amended: sailAngle stays within [0, pi/2] in both copies of
\* src/main.js and within [0, pi] in src/unnamed/part_000, whose ArrowUp
\* handler clamps at Math.PI; a press at a boundary leaves it there.
C8_SailAngleWithinRange ==
    variant \in WindVariants => (0 <= sailAngle /\ sailAngle <= SailMax(variant))

\* C8 witness: ArrowUp presses have driven the sail angle of part_000 to its
\* upper boundary pi.
C8_Witness == variant = "windC" /\ sailAngle = PI

\* C9: the submerged volume used for buoyancy is within [0, this.volume] for
\* every reachable position.y of a loaded boat.
C9_SubmergedVolumeRange ==
    (variant = "thrust" /\ IsLoaded(boat))
        => (0 <= SubmergedVolume(boat) /\ SubmergedVolume(boat) <= boat.volume)

\* the default boat floating at its draft: y = -2, at rest, no thrust
AtDraft ==
    /\ IsLoaded(boat)
    /\ boat.mass = 3000 /\ boat.volume = (15 * SCALE) \div 10
    /\ Position(boat)[2] = Fix(-2)
    /\ boat.velocity = Zero3
    /\ boat.thrust = 0

\* C10: for the default boat at y = -2 with zero velocity and zero thrust the
\* vertical total force is zero and one update leaves position.y and
\* velocity.y unchanged.
C10_Equilibrium ==
    [][(calls' = calls + 1 /\ AtDraft)
         => /\ TotalForce(boat)[2] = 0
            /\ Position(boat)'[2] = Position(boat)[2]
            /\ boat'.velocity[2] = boat.velocity[2]]_vars

\* C10 witness: update has run with a positive deltaTime and the boat is at
\* its draft, at rest.
C10_Witness == calls >= 1 /\ deltaTime > 0 /\ AtDraft /\ boat.acceleration = Zero3

\* C11: a mass <= 0 is rejected, so no body is ever left with a mass or an
\* inertia that is <= 0, whatever setMass was called with.
C11_MassAndInertiaPositive == boat.mass > 0 /\ boat.inertia > 0

\* C12: every frame of the thrust program runs boat.update, then
\* sphere.update, then boat.checkCollision (and the rest of the frame), in
\* that order: the update step applies no impulse, the sphere step leaves the
\* boat alone, and the collision step tests and resolves the positions that
\* this frame's integration produced, without moving either body.
C12_FrameOrder ==
    [][variant = "thrust"
         => /\ (pc = "idle" /\ pc' # "idle")
                 => /\ pc' = "sphere" /\ frames' = frames + 1
                    /\ boat' = Update(boat, deltaTime')
                    /\ sphere' = sphere
            /\ pc = "sphere"
                 => /\ pc' = "collide" /\ frames' = frames
                    /\ boat' = boat
                    /\ sphere' = SphereUpdate(sphere, deltaTime)
            /\ (pc = "collide" /\ IsLoaded(boat))
                 => /\ pc' = "idle" /\ frames' = frames
                    /\ <<boat', sphere'>> = CheckCollision(boat, sphere)
                    /\ Position(boat)' = Position(boat)
                    /\ sphere'.object = sphere.object]_vars

\* C12 witness: two whole frames have run on a loaded boat and the second
\* ended with a collision impulse on both bodies.
C12_Witness ==
    /\ variant = "thrust" /\ pc = "idle" /\ frames >= 2
    /\ IsLoaded(boat) /\ boat.collided
    /\ sphere.velocity # Zero3
    /\ exception = "none"

\* the square of velocity.length()
SpeedSquared(v) == VDot(v, v)

\* a Boat.update call on a loaded boat with zero thrust, a non-zero velocity
\* and a positive deltaTime
CoastingUpdate ==
    /\ calls' = calls + 1
    /\ IsLoaded(boat) /\ boat.thrust = 0 /\ boat.velocity # Zero3
    /\ deltaTime' > 0

WindUpdateStep == variant \in WindVariants /\ frames' = frames + 1 /\ IsLoaded(boat)

\* the net force on the default boat at rest, without the wind term's
\* horizontal part: its vertical component
NetVerticalForceAtRest ==
    computeNetForce(variant, boat.forces, Zero3, windDirection, sailAngle)[2]

\* C14: with the default wind configuration the net vertical force is
\* +14715 N and the boat rises: every Boat.update with dt > 0 increases
\* position.y.
C14_OverBuoyantBoatRises ==
    [][(WindUpdateStep /\ deltaTime' > 0)
         => /\ NetVerticalForceAtRest = Fix(14715)
            /\ Position(boat)'[2] > Position(boat)[2]]_vars

\* the programs of src/main.js
MainVariants == {"windA", "windB"}

\* C15: in src/main.js computeWindForce(windDirection, sailAngle) is the
\* zero vector for sailAngle <= 0, windDirection itself for sailAngle >= pi/2
\* and windDirection * sin(sailAngle) in between; the update that calls it
\* leaves windDirection unchanged and, from rest, stores the acceleration
\* (gravity + buoyancy + that wind force) / mass.
C15_WindForce ==
    [][(calls' = calls + 1 /\ variant \in MainVariants)
         => /\ sailAngle <= 0
                 => computeWindForce(variant, windDirection, sailAngle) = Zero3
            /\ sailAngle >= RoundDiv(PI, 2)
                 => computeWindForce(variant, windDirection, sailAngle) = windDirection
            /\ (0 < sailAngle /\ sailAngle < RoundDiv(PI, 2))
                 => computeWindForce(variant, windDirection, sailAngle)
                      = VScale(windDirection, Sin(sailAngle))
            /\ windDirection' = windDirection
            /\ (boat.velocity = Zero3 /\ sailAngle >= RoundDiv(PI, 2))
                 => boat'.acceleration
                      = VDivInt(VAdd(VAdd(boat.forces.gravity, boat.forces.buoyancy),
                                     windDirection), boat.forces.mass)]_vars

\* C15 witness: update has run in src/main.js with the sail angle pi, above
\* the range, from rest in the wind (30, 0, 40): the stored acceleration is
\* the one of the full wind.
C15_Witness ==
    /\ calls = 1 /\ variant = "windA"
    /\ sailAngle = PI
    /\ windDirection = <<Fix(30), 0, Fix(40)>>
    /\ boat.acceleration[1] = 60 /\ boat.acceleration[3] = 80

C17_CollidedIffOverlap ==
    [][(CheckCollisionStep /\ IsLoaded(boat))
         => /\ boat'.collided
                 <=> (VLength(VSub(Position(boat), sphere.object.position))
                        < boat.radius + Fix(50) + sphere.radius)
            /\ Position(boat') = Position(boat)
            /\ sphere'.object = sphere.object]_vars

\* C17 witness: a frame has ended with collided = FALSE although an earlier
\* checkCollision found an overlap (only handleCollision gives the sphere a
\* velocity).
C17_Witness ==
    /\ variant = "thrust" /\ pc = "idle" /\ frames >= 3
    /\ IsLoaded(boat) /\ ~boat.collided
    /\ sphere.velocity # Zero3

\* C18: without thrust, steering does not turn the boat. Across every step
\* that keeps thrust = 0 (an update or a rotationSpeed change), torque = 0
\* and angularVelocity = 0 are preserved, as is the yaw; the boat is created
\* with both at 0, so they stay 0 for as long as thrust has been 0. And
\* across every update with thrust = 0, |angularVelocity| does not increase.
C18_NoTurnWithoutThrust ==
    [][(boat.thrust = 0 /\ boat'.thrust = 0)
         => /\ (boat.torque = 0 /\ boat.angularVelocity = 0)
                 => /\ boat'.torque = 0
                    /\ boat'.angularVelocity = 0
                    /\ RotationY(boat') = RotationY(boat)
            /\ calls' = calls + 1
                 => /\ boat'.torque = 0
                    /\ Abs(boat'.angularVelocity) <= Abs(boat.angularVelocity)]_vars

\* C18 witness: two updates have run with the rotationSpeed slider off zero
\* and no thrust, and the boat has not turned.
C18_Witness ==
    /\ calls = 2 /\ deltaTime > 0
    /\ boat.thrust = 0 /\ boat.rotationSpeed # 0
    /\ boat.torque = 0 /\ boat.angularVelocity = 0 /\ RotationY(boat) = 0

\* an update with thrust = 0 has slowed a boat that was turning
C18_WitnessTurning ==
    /\ calls = 2 /\ deltaTime > 0 /\ inputs = 1
    /\ boat.thrust = 0 /\ boat.torque = 0
    /\ boat.angularVelocity # 0 /\ RotationY(boat) # 0

\* the displacement that the step applies to the scene object of the boat
Displacement == VSub(Position(boat'), Position(boat))

\* C19: in the wind programs, after 's' (setVelocity(-100)) the displacement
\* applied by the next Boat.update with dt > 0 is opposite to the forward
\* heading of the boat.
C19_ReverseMovesBackward ==
    [][(WindUpdateStep /\ boat.velocity = <<0, 0, Fix(-100)>> /\ deltaTime' > 0)
         => VDot(Displacement, WorldDirection(boat)) < 0]_vars

\* C20: with the default boat of the wind programs Forces.isAtRest is false
\* in every state, for the velocity of the new boat that the load callback
\* tests and for the velocity of the loaded boat, whatever the wind
\* direction and the sail angle; and every Boat.update of a loaded boat adds
\* acceleration * dt to the velocity, also from the velocity 0 that a key
\* release leaves.
C20_NeverAtRest ==
    /\ [](/\ ~isAtRest(variant, WindBoat.forces, WindBoat.velocity,
                        windDirection, sailAngle)
          /\ ~isAtRest(variant, boat.forces, boat.velocity, windDirection, sailAngle))
    /\ [][(calls' = calls + 1 /\ IsLoaded(boat))
           => boat'.velocity
                = VAdd(boat.velocity, VScale(boat'.acceleration, deltaTime'))]_vars

\* C20 witness: an update has run on a boat whose velocity was 0, as after a
\* key release, and has given it the velocity acceleration * dt.
C20_Witness ==
    /\ calls = 1 /\ deltaTime > 0 /\ IsLoaded(boat)
    /\ boat.velocity # Zero3
    /\ boat.velocity = VScale(boat.acceleration, deltaTime)
    /\ boat.acceleration[2] = RoundDiv(Fix(14715), 500)

====
